---------------------------- MODULE Spec2Model ----------------------------
(***************************************************************************)
(* The WebSocket transport listener of transport/internet/websocket/hub.go *)
(* as a state machine: ListenWS composes the stream listener with the      *)
(* optional PROXY-protocol and TLS wrappers and starts http.Server.Serve   *)
(* on a background goroutine; every accepted connection runs its own task  *)
(* that passes the wrappers and then hands each HTTP request to            *)
(* requestHandler.ServeHTTP; Close delegates to the composed listener.     *)
(***************************************************************************)
EXTENDS Naturals, Sequences, FiniteSets

(* ------------------------------ bounds -------------------------------- *)

\* Number of stream connections a run may accept.
NumConns == 2

\* Number of calls of Listener.Close a run may make.
MaxCloseCalls == 2

Conns == 1..NumConns

(* ------------------------- program constants -------------------------- *)

StatusForbidden == 403

StatusNotFound == 404

forbiddenContent == "<html><head><title>403 Forbidden</title></head><body><center><h1>403 Forbidden</h1></center><hr><center>nginx</center></body></html>"

notFoundContent == "<html><head><title>404 Not Found</title></head><body><center><h1>404 Not Found</h1></center><hr><center>nginx</center></body></html>"

(* ------------------------------ inputs -------------------------------- *)

\* Request paths; the configured (normalized) path is one of them.
Paths == {"/ws", "/other"}

\* IP literals that may appear in a forwarding header.
IPLiterals == {"203.0.113.7", "10.0.0.1"}

\* Values of the X-Forwarded-For header, as token sequences: an entry is a
\* run of tokens, "," separates entries.  <<>> is the absent or empty header.
XffValues ==
    { <<>>,
      <<"203.0.113.7">>,
      <<"203.0.113.7", ",", "10.0.0.1">>,
      <<"unknown", ",", "10.0.0.1">>,
      <<",", "10.0.0.1">> }

\* What the framing collaborator does with a request: the handshake
\* succeeds, or it fails and proposes a status and a reason to the Error
\* callback.
UpgradeOk == [ok |-> TRUE, status |-> 101, reason |-> "none"]

UpgradeFailures ==
    { [ok |-> FALSE, status |-> 400, reason |-> "bad handshake"],
      [ok |-> FALSE, status |-> 500, reason |-> "no hijacker"] }

\* The requests a peer may send.
Requests ==
    [path : {"/other"}, xff : {<<"203.0.113.7">>}, upgrade : {UpgradeOk}]
    \cup [path : {"/other"}, xff : {<<>>},
          upgrade : {u \in UpgradeFailures : u.status = 400}]
    \cup [path : {"/ws"}, xff : {<<"203.0.113.7">>}, upgrade : UpgradeFailures]
    \cup [path : {"/ws"}, xff : XffValues, upgrade : {UpgradeOk}]

\* Address of the peer's socket: the listener is a TCP listener (line 114).
SockAddrs == { [kind |-> "tcp", ip |-> "10.0.0.2", port |-> 5555] }

\* Source address declared by a PROXY-protocol preamble: any net.Addr kind.
PreambleAddrs ==
    { [kind |-> "tcp", ip |-> "198.51.100.9", port |-> 7777],
      [kind |-> "unix", ip |-> "", port |-> 0] }

(* ------------------------------- state -------------------------------- *)

VARIABLES
    settings,     \* streamSettings given to ListenWS: path, AcceptProxyProtocol, tls
    pc,           \* "start" before ListenWS is called, "listened" after
    ret,          \* what ListenWS returned: [handle, err]
    ln,           \* the Listener struct and its handler's path
    sock,         \* the physical stream listener: "unbound", "open", "closed"
    lnCloseCalls, \* Close calls the composed listener has received
    closeLog,     \* results of the calls of Listener.Close, in order
    serve,        \* the goroutine of line 152: "notstarted", "running", "exited"
    log,          \* failures of the serve loop written to the log
    cstate,       \* per connection: the position of its task
    cin,          \* per connection: socket address and declared preamble
    touched,      \* per connection: the layers that processed it, in order
    last,         \* per connection: the outcome of its latest request
    delivered     \* per connection: the consumer callback's invocations

vars == <<settings, pc, ret, ln, sock, lnCloseCalls, closeLog, serve, log,
          cstate, cin, touched, last, delivered>>

(* ------------------------- the response sink -------------------------- *)

\* An http.ResponseWriter nothing has been written to; broken: the sink
\* fails every write.
NewWriter(broken) ==
    [hdr |-> {}, status |-> 0, sentHdr |-> {}, body |-> <<>>,
     broken |-> broken, werr |-> FALSE]

\* writer.Header().Set(k, v)
SetHeader(w, k, v) ==
    [w EXCEPT !.hdr = {p \in @ : p[1] # k} \cup {<<k, v>>}]

\* writer.WriteHeader(code): the status line and the headers set so far go
\* out; a second call changes nothing.
WriteHeader(w, code) ==
    IF w.status # 0 THEN w
    ELSE [w EXCEPT !.status = code, !.sentHdr = w.hdr]

\* writer.Write(content): an implicit WriteHeader(200) if none was made.
\* body is what was handed to the sink; werr the error Write returned.
Write(w, content) ==
    LET w1 == IF w.status = 0 THEN WriteHeader(w, 200) ELSE w
    IN  [w1 EXCEPT !.body = Append(@, content), !.werr = w.broken]

(* ----------------------- Camouflage Responder ------------------------- *)

\* A responder that writes the status before it sets the headers.
forbiddenHandlerStatusFirst(writer) ==
    LET w1 == WriteHeader(writer, StatusForbidden)
        w2 == SetHeader(w1, "Server", "nginx")
        w3 == SetHeader(w2, "Content-Type", "text/html")
    IN  Write(w3, forbiddenContent)

forbiddenHandler(writer) ==
    LET w1 == SetHeader(writer, "Server", "nginx")
        w2 == SetHeader(w1, "Content-Type", "text/html")
        w3 == WriteHeader(w2, StatusForbidden)
    IN  Write(w3, forbiddenContent)

\* A responder that answers a missing route like a refused upgrade.
notFoundHandlerAsForbidden(writer) ==
    forbiddenHandler(writer)

notFoundHandler(writer) ==
    LET w1 == SetHeader(writer, "Server", "nginx")
        w2 == SetHeader(w1, "Content-Type", "text/html")
        w3 == WriteHeader(w2, StatusNotFound)
    IN  Write(w3, notFoundContent)

(* ----------------------------- upgrader ------------------------------- *)

\* An Error callback that answers as http.Error would: the proposed status
\* and the reason as the body.
upgraderErrorSurfacing(writer, status, reason) ==
    Write(WriteHeader(writer, status), reason)

\* upgrader.Error: status and reason are ignored.
upgraderError(writer, status, reason) ==
    forbiddenHandler(writer)

\* upgrader.Upgrade(writer, request, nil): on success the connection is
\* taken over from the HTTP server and nothing is written to the sink; on
\* failure the Error callback answers and an error is returned.
Upgrade(writer, request) ==
    IF request.upgrade.ok
    THEN [conn |-> TRUE, err |-> FALSE, w |-> writer]
    ELSE [conn |-> FALSE, err |-> TRUE,
          w |-> upgraderError(writer, request.upgrade.status,
                              request.upgrade.reason)]

(* --------------------------- Origin Resolver -------------------------- *)

RECURSIVE SplitComma(_, _, _)
\* strings.Split(xff, ","): the entries between the commas.
SplitComma(toks, cur, acc) ==
    IF toks = <<>> THEN Append(acc, cur)
    ELSE IF Head(toks) = ","
         THEN SplitComma(Tail(toks), <<>>, Append(acc, cur))
         ELSE SplitComma(Tail(toks), Append(cur, Head(toks)), acc)

\* net.ParseAddress: an IP address for an IP literal, a domain otherwise.
ParseAddress(entry) ==
    IF Len(entry) = 1 /\ entry[1] \in IPLiterals
    THEN [family |-> "ip", value |-> entry[1]]
    ELSE [family |-> "domain",
          value |-> IF entry = <<>> THEN "" ELSE entry[1]]

\* http_proto.ParseXForwardedFor: no address for an absent or empty header,
\* else one address per comma-separated entry, in order.
ParseXForwardedFor(xff) ==
    IF xff = <<>> THEN <<>>
    ELSE LET list == SplitComma(xff, <<>>, <<>>)
         IN  [i \in 1..Len(list) |-> ParseAddress(list[i])]

\* A resolver that honours the first entry that is an IP, wherever it is.
ResolveAnyEntry(remoteAddr, forwardedAddrs) ==
    LET ips == {i \in 1..Len(forwardedAddrs) : forwardedAddrs[i].family = "ip"}
    IN  IF ips # {}
        THEN LET i == CHOOSE k \in ips : \A j \in ips : k <= j
             IN  IF remoteAddr.kind = "tcp"
                 THEN [panic |-> FALSE,
                       addr |-> [remoteAddr EXCEPT !.ip = forwardedAddrs[i].value]]
                 ELSE [panic |-> TRUE, addr |-> remoteAddr]
        ELSE [panic |-> FALSE, addr |-> remoteAddr]

\* Lines 97-100: the IP of the peer address is replaced by the first
\* forwarded address if that is an IP.  The assertion to *net.TCPAddr is
\* unchecked: it panics for a peer address of another kind.
Resolve(remoteAddr, forwardedAddrs) ==
    IF Len(forwardedAddrs) > 0 /\ forwardedAddrs[1].family = "ip"
    THEN IF remoteAddr.kind = "tcp"
         THEN [panic |-> FALSE,
               addr |-> [remoteAddr EXCEPT !.ip = forwardedAddrs[1].value]]
         ELSE [panic |-> TRUE, addr |-> remoteAddr]
    ELSE [panic |-> FALSE, addr |-> remoteAddr]

\* newConnection(conn, remoteAddr)
newConnection(remoteAddr) == [remoteAddr |-> remoteAddr]

(* -------------------------- Upgrade Dispatcher ------------------------ *)

\* Lines 90-102: the upgrade, the address resolution and the hand-over.
\* steps is the handler's trace; emitted the connections handed to addConn.
UpgradeAndEmit(w, request, peer, steps) ==
    LET up == Upgrade(w, request)
        s1 == Append(steps, "Upgrade")
    IN  IF up.err
        THEN [w |-> up.w, steps |-> s1, emitted |-> <<>>, upgraded |-> FALSE,
              panicked |-> FALSE,
              logs |-> {"upgrade"} \cup (IF up.w.werr THEN {"write"} ELSE {})]
        ELSE LET forwardedAddrs == ParseXForwardedFor(request.xff)
                 r  == Resolve(peer, forwardedAddrs)
                 s2 == Append(s1, "AddressResolve")
             IN  IF r.panic
                 THEN [w |-> up.w, steps |-> s2, emitted |-> <<>>,
                       upgraded |-> TRUE, panicked |-> TRUE, logs |-> {}]
                 ELSE [w |-> up.w, steps |-> Append(s2, "Emit"),
                       emitted |-> <<newConnection(r.addr)>>,
                       upgraded |-> TRUE, panicked |-> FALSE, logs |-> {}]

\* A dispatcher that upgrades first and looks at the path afterwards.
ServeHTTPUpgradeFirst(path, w, request, peer) ==
    LET r == UpgradeAndEmit(w, request, peer, <<>>)
    IN  IF request.path # path /\ ~r.upgraded
        THEN [r EXCEPT !.w = notFoundHandler(w),
                       !.steps = Append(@, "PathCheck")]
        ELSE [r EXCEPT !.steps = Append(@, "PathCheck")]

\* requestHandler.ServeHTTP
ServeHTTP(path, w, request, peer) ==
    IF request.path # path
    THEN [w |-> notFoundHandler(w), steps |-> <<"PathCheck">>,
          emitted |-> <<>>, upgraded |-> FALSE, panicked |-> FALSE,
          logs |-> IF notFoundHandler(w).werr THEN {"write"} ELSE {}]
    ELSE UpgradeAndEmit(w, request, peer, <<"PathCheck">>)

(* --------------------------- Listener Pipeline ------------------------ *)

NoAddr == [kind |-> "none", ip |-> "", port |-> 0]

NoOutcome ==
    [req |-> [path |-> "", xff |-> <<>>, upgrade |-> UpgradeOk],
     status |-> 0, hdr |-> {}, body |-> <<>>, steps |-> <<>>,
     emitted |-> <<>>, upgraded |-> FALSE, panicked |-> FALSE,
     logged |-> {}]

\* A composition that puts the TLS wrapper under the PROXY-protocol wrapper.
WrapListenerTLSFirst(acceptProxy, tlsConfig) ==
    LET l1 == IF tlsConfig THEN <<"tcp", "tls">> ELSE <<"tcp">>
    IN  IF acceptProxy THEN Append(l1, "proxy") ELSE l1

\* Lines 125-135: the composed listener, innermost layer first.  A
\* connection's bytes pass the layers in this order.
WrapListener(acceptProxy, tlsConfig) ==
    LET l1 == IF acceptProxy THEN <<"tcp", "proxy">> ELSE <<"tcp">>
    IN  IF tlsConfig THEN Append(l1, "tls") ELSE l1

\* A ListenWS without the early return of line 119.
ListenWSNoEarlyReturn(bindOk, st) ==
    [ret    |-> [handle |-> TRUE,
                 err |-> IF bindOk THEN "nil" ELSE "BindFailure"],
     ln     |-> [path |-> st.path, acceptProxy |-> st.acceptProxy,
                 addConn |-> "addConn",
                 listener |-> WrapListener(st.acceptProxy, st.tls)],
     sock   |-> IF bindOk THEN "open" ELSE "unbound",
     serve  |-> "running"]

\* ListenWS, lines 113-159: what it returns and what it leaves behind.
ListenWSResult(bindOk, st) ==
    IF ~bindOk
    THEN [ret   |-> [handle |-> FALSE, err |-> "BindFailure"],
          ln    |-> [path |-> "", acceptProxy |-> FALSE, addConn |-> "",
                     listener |-> <<>>],
          sock  |-> "unbound",
          serve |-> "notstarted"]
    ELSE [ret   |-> [handle |-> TRUE, err |-> "nil"],
          ln    |-> [path |-> st.path, acceptProxy |-> st.acceptProxy,
                     addConn |-> "addConn",
                     listener |-> WrapListener(st.acceptProxy, st.tls)],
          sock  |-> "open",
          serve |-> "running"]

\* net.Listener.Close of the stream listener, to which every wrapper
\* delegates: an error when it is already closed.
ListenerClose(s) ==
    [sock |-> "closed", err |-> IF s = "open" THEN "nil" ELSE "err"]

\* The position of a connection's task once it has passed the layers done.
StageAfter(done) ==
    IF Len(done) < Len(ln.listener) THEN "wrap" ELSE "reading"

\* The wrapper that is to process connection c next.
Pending(c) == ln.listener[Len(touched[c]) + 1]

\* conn.RemoteAddr(): the source the preamble declared under the
\* PROXY-protocol wrapper, the socket's peer address otherwise.
RemoteAddr(c) ==
    IF ln.acceptProxy /\ cin[c].preamble # NoAddr
    THEN cin[c].preamble
    ELSE cin[c].sock

\* The address and port ListenWS binds (lines 114-117).
ListenAddress == [kind |-> "tcp", ip |-> "0.0.0.0", port |-> 443]

\* Addr of the stream listener: the address it was bound to, which it
\* keeps when it is closed.
PhysicalAddr(s) ==
    IF s = "unbound" THEN NoAddr ELSE ListenAddress

RECURSIVE ListenerAddr(_, _)
\* Addr of layer i of the composed listener: a wrapper hands the call on
\* to the listener it wraps.
ListenerAddr(layers, i) ==
    IF i <= 1 THEN PhysicalAddr(sock)
    ELSE ListenerAddr(layers, i - 1)

\* An Addr that has no address once the listener is closed.
AddrUntilClosed ==
    IF sock = "open" THEN ListenerAddr(ln.listener, Len(ln.listener))
    ELSE NoAddr

\* Listener.Addr, lines 162-164.
Addr ==
    ListenerAddr(ln.listener, Len(ln.listener))

Init ==
    /\ settings \in [path : {"/ws"}, acceptProxy : BOOLEAN, tls : BOOLEAN]
    /\ pc = "start"
    /\ ret = [handle |-> FALSE, err |-> "nil"]
    /\ ln = [path |-> "", acceptProxy |-> FALSE, addConn |-> "",
             listener |-> <<>>]
    /\ sock = "unbound"
    /\ lnCloseCalls = 0
    /\ closeLog = <<>>
    /\ serve = "notstarted"
    /\ log = {}
    /\ cstate = [c \in Conns |-> "new"]
    /\ cin = [c \in Conns |-> [sock |-> NoAddr, preamble |-> NoAddr]]
    /\ touched = [c \in Conns |-> <<>>]
    /\ last = [c \in Conns |-> NoOutcome]
    /\ delivered = [c \in Conns |-> <<>>]

\* ListenWS is called: the bind succeeds or fails.
ListenWS ==
    /\ pc = "start"
    /\ \E bindOk \in BOOLEAN :
         LET r == ListenWSResult(bindOk, settings)
         IN  /\ ret' = r.ret
             /\ ln' = r.ln
             /\ sock' = r.sock
             /\ serve' = r.serve
    /\ pc' = "listened"
    /\ UNCHANGED <<settings, lnCloseCalls, closeLog, log, cstate, cin,
                   touched, last, delivered>>

\* A Close that also closes every connection the listener has produced,
\* the upgraded ones included.
CloseWithConnections ==
    /\ ret.handle
    /\ Len(closeLog) < MaxCloseCalls
    /\ sock' = ListenerClose(sock).sock
    /\ closeLog' = Append(closeLog, ListenerClose(sock).err)
    /\ lnCloseCalls' = lnCloseCalls + 1
    /\ cstate' = [c \in Conns |->
                    IF cstate[c] = "new" THEN "new" ELSE "closed"]
    /\ UNCHANGED <<settings, pc, ret, ln, serve, log, cin, touched, last,
                   delivered>>

\* A Close that drops the Listener's callback reference.
CloseDropsCallback ==
    /\ ret.handle
    /\ Len(closeLog) < MaxCloseCalls
    /\ sock' = ListenerClose(sock).sock
    /\ closeLog' = Append(closeLog, ListenerClose(sock).err)
    /\ lnCloseCalls' = lnCloseCalls + 1
    /\ ln' = [ln EXCEPT !.addConn = ""]
    /\ UNCHANGED <<settings, pc, ret, serve, log, cstate, cin, touched,
                   last, delivered>>

\* Listener.Close, lines 167-169, called by the holder of the handle.
Close ==
    /\ ret.handle
    /\ Len(closeLog) < MaxCloseCalls
    /\ LET r == ListenerClose(sock)
       IN  /\ sock' = r.sock
           /\ closeLog' = Append(closeLog, r.err)
    /\ lnCloseCalls' = lnCloseCalls + 1
    /\ UNCHANGED <<settings, pc, ret, ln, serve, log, cstate, cin, touched,
                   last, delivered>>

\* l.server.Serve returns because Accept fails on the closed listener; on
\* its way out Serve closes the listener it was given, and line 154 logs.
ServeExit ==
    /\ serve = "running"
    /\ sock # "open"
    /\ serve' = "exited"
    /\ sock' = ListenerClose(sock).sock
    /\ lnCloseCalls' = lnCloseCalls + 1
    /\ log' = log \cup {"serve"}
    /\ UNCHANGED <<settings, pc, ret, ln, closeLog, cstate, cin, touched,
                   last, delivered>>

\* A serve loop that logs the accept error and carries on accepting.
AcceptFailRestart ==
    /\ serve = "running"
    /\ sock = "open"
    /\ log' = log \cup {"serve"}
    /\ UNCHANGED <<settings, pc, ret, ln, sock, lnCloseCalls, closeLog,
                   serve, cstate, cin, touched, last, delivered>>

\* Accept fails for good on the open listener: Serve returns as above.
AcceptFail ==
    /\ serve = "running"
    /\ sock = "open"
    /\ serve' = "exited"
    /\ sock' = ListenerClose(sock).sock
    /\ lnCloseCalls' = lnCloseCalls + 1
    /\ log' = log \cup {"serve"}
    /\ UNCHANGED <<settings, pc, ret, ln, closeLog, cstate, cin, touched,
                   last, delivered>>

\* A serve loop whose Accept still yields connections once the listener
\* is closed.
CanAcceptWhenClosed ==
    serve = "running"

\* The serve loop is in l.listener.Accept and the listener is open: Accept
\* on a closed listener fails (ServeExit).
CanAccept ==
    serve = "running" /\ sock = "open"

\* Serve accepts a stream connection and starts its task.  Connections
\* are numbered in the order they are accepted.
Accept(c) ==
    /\ CanAccept
    /\ cstate[c] = "new"
    /\ \A d \in Conns : d < c => cstate[d] # "new"
    /\ \E sa \in SockAddrs :
       \E pa \in (IF ln.acceptProxy THEN PreambleAddrs \cup {NoAddr}
                                    ELSE {NoAddr}) :
         cin' = [cin EXCEPT ![c] = [sock |-> sa, preamble |-> pa]]
    /\ touched' = [touched EXCEPT ![c] = <<"tcp">>]
    /\ cstate' = [cstate EXCEPT ![c] = StageAfter(<<"tcp">>)]
    /\ UNCHANGED <<settings, pc, ret, ln, sock, lnCloseCalls, closeLog,
                   serve, log, last, delivered>>

\* The PROXY-protocol wrapper (policy REQUIRE) reads the preamble: a
\* connection without a valid one is rejected.
ProxyPreamble(c) ==
    /\ cstate[c] = "wrap"
    /\ Pending(c) = "proxy"
    /\ touched' = [touched EXCEPT ![c] = Append(@, "proxy")]
    /\ cstate' = [cstate EXCEPT ![c] =
                    IF cin[c].preamble # NoAddr
                    THEN StageAfter(Append(touched[c], "proxy"))
                    ELSE "closed"]
    /\ UNCHANGED <<settings, pc, ret, ln, sock, lnCloseCalls, closeLog,
                   serve, log, cin, last, delivered>>

\* The TLS wrapper performs its handshake, which succeeds or fails.
TLSHandshake(c) ==
    /\ cstate[c] = "wrap"
    /\ Pending(c) = "tls"
    /\ touched' = [touched EXCEPT ![c] = Append(@, "tls")]
    /\ \E ok \in BOOLEAN :
         cstate' = [cstate EXCEPT ![c] =
                      IF ok THEN StageAfter(Append(touched[c], "tls"))
                      ELSE "closed"]
    /\ UNCHANGED <<settings, pc, ret, ln, sock, lnCloseCalls, closeLog,
                   serve, log, cin, last, delivered>>

\* ReadHeaderTimeout (line 148) ends a connection whose first request does
\* not arrive.
HeaderTimeout(c) ==
    /\ cstate[c] = "reading"
    /\ cstate' = [cstate EXCEPT ![c] = "closed"]
    /\ UNCHANGED <<settings, pc, ret, ln, sock, lnCloseCalls, closeLog,
                   serve, log, cin, touched, last, delivered>>

\* The peer closes a connection that has not been upgraded.
PeerClose(c) ==
    /\ cstate[c] \in {"wrap", "reading", "idle"}
    /\ cstate' = [cstate EXCEPT ![c] = "closed"]
    /\ UNCHANGED <<settings, pc, ret, ln, sock, lnCloseCalls, closeLog,
                   serve, log, cin, touched, last, delivered>>

\* A server that keeps reading requests from an upgraded connection.
AfterRequestKeepReading(r) ==
    IF r.panicked THEN "closed" ELSE "idle"

\* Where ServeHTTP leaves the connection's task: a panic ends the
\* connection, an upgrade takes the connection over from the HTTP server
\* (line 90) and the task is in the consumer callback (line 102), a
\* rejection leaves it waiting for the next request.
AfterRequest(r) ==
    IF r.panicked THEN "closed"
    ELSE IF r.upgraded THEN "callback"
    ELSE "idle"

\* A dispatcher that holds the Listener's mutex around the handler: no
\* request is served while any consumer callback is running.
CanServeLocked(c) ==
    /\ cstate[c] \in {"reading", "idle"}
    /\ \A d \in Conns : cstate[d] # "callback"

\* The task of connection c is ready to read a request: it runs on its
\* own goroutine and is not inside a handler.
CanServe(c) ==
    cstate[c] \in {"reading", "idle"}

\* A request arrives on connection c and the server calls ServeHTTP.  The
\* consumer callback runs inside the handler: an upgraded connection's
\* task stays in the callback until CallbackReturn.  A panic of the
\* handler is recovered by the server, which closes the connection.
ServeRequest(c) ==
    /\ CanServe(c)
    /\ \E request \in Requests, broken \in BOOLEAN :
         \E r \in {ServeHTTP(ln.path, NewWriter(broken), request,
                             RemoteAddr(c))} :
             /\ last' = [last EXCEPT ![c] =
                           [req |-> request, status |-> r.w.status,
                            hdr |-> r.w.sentHdr, body |-> r.w.body,
                            steps |-> r.steps, emitted |-> r.emitted,
                            upgraded |-> r.upgraded,
                            panicked |-> r.panicked,
                            logged |-> r.logs \cup
                               (IF r.panicked THEN {"panic"} ELSE {})]]
             /\ delivered' = [delivered EXCEPT ![c] = @ \o r.emitted]
             /\ cstate' = [cstate EXCEPT ![c] = AfterRequest(r)]
    /\ touched' = [touched EXCEPT ![c] =
                     IF cstate[c] = "reading" THEN Append(@, "http") ELSE @]
    /\ UNCHANGED <<settings, pc, ret, ln, sock, lnCloseCalls, closeLog,
                   serve, log, cin>>

\* The consumer callback returns and with it ServeHTTP.
CallbackReturn(c) ==
    /\ cstate[c] = "callback"
    /\ cstate' = [cstate EXCEPT ![c] = "delivered"]
    /\ UNCHANGED <<settings, pc, ret, ln, sock, lnCloseCalls, closeLog,
                   serve, log, cin, touched, last, delivered>>

Next ==
    \/ ListenWS
    \/ Close
    \/ ServeExit
    \/ AcceptFail
    \/ \E c \in Conns : Accept(c)
    \/ \E c \in Conns : ProxyPreamble(c)
    \/ \E c \in Conns : TLSHandshake(c)
    \/ \E c \in Conns : HeaderTimeout(c)
    \/ \E c \in Conns : PeerClose(c)
    \/ \E c \in Conns : ServeRequest(c)
    \/ \E c \in Conns : CallbackReturn(c)

Spec == Init /\ [][Next]_vars

\* The fairness the scheduling gives: the server's own steps happen (the
\* serve loop returns once Accept fails, the wrappers finish or give up,
\* the header deadline fires); what a peer, the consumer or the holder of
\* the handle does is up to them.
Fairness ==
    /\ WF_vars(ServeExit)
    /\ \A c \in Conns : WF_vars(ProxyPreamble(c))
    /\ \A c \in Conns : WF_vars(TLSHandshake(c))
    /\ \A c \in Conns : WF_vars(HeaderTimeout(c))

FairSpec == Init /\ [][Next]_vars /\ Fairness

(* ------------------------------ properties ---------------------------- *)

Range(s) == {s[i] : i \in DOMAIN s}

\* Connection c has had a request handled; last[c] is its outcome.
Handled(c) == last[c].steps # <<>>

\* The first entry of a forwarding header is an IP literal.
FirstEntryIsIP(xff) ==
    /\ xff # <<>>
    /\ xff[1] \in IPLiterals
    /\ (Len(xff) = 1 \/ xff[2] = ",")

\* C1: a request whose path differs from the configured path is answered
\* with status 404 and exactly the fixed not-found body, and the consumer
\* callback is not invoked for it.
C1_NotFoundCamouflage ==
    \A c \in Conns :
        (Handled(c) /\ last[c].req.path # ln.path) =>
            /\ last[c].status = StatusNotFound
            /\ last[c].body = <<notFoundContent>>
            /\ last[c].emitted = <<>>
            /\ delivered[c] = <<>>

C1_Witness ==
    \E c \in Conns :
        /\ Handled(c)
        /\ last[c].req.path = "/other"
        /\ ln.path = "/ws"
        /\ last[c].status = 404

\* C2: a request for the configured path whose upgrade fails is answered
\* with status 403 and exactly the fixed forbidden body, whatever status
\* and reason the upgrader proposes, and the consumer callback is not
\* invoked for it.
C2_ForbiddenCamouflage ==
    \A c \in Conns :
        (Handled(c) /\ last[c].req.path = ln.path /\ ~last[c].req.upgrade.ok) =>
            /\ last[c].status = StatusForbidden
            /\ last[c].body = <<forbiddenContent>>
            /\ last[c].emitted = <<>>
            /\ delivered[c] = <<>>

C2_Witness ==
    \E c \in Conns :
        /\ Handled(c)
        /\ last[c].req.path = ln.path
        /\ last[c].req.upgrade.status = 500
        /\ last[c].status = 403

\* C3: a request whose upgrade succeeds has the consumer callback invoked
\* exactly once, for every forwarding header and every peer address.
C3_UpgradedEmitsOnce ==
    \A c \in Conns :
        (Handled(c) /\ last[c].upgraded) => Len(last[c].emitted) = 1

\* C4: the address delivered with an upgraded connection is the first
\* entry of the forwarding header with the peer's port when that entry is
\* an IP literal, and the peer address unchanged in every other case.
C4_ResolvedAddress ==
    \A c \in Conns :
        \A i \in DOMAIN last[c].emitted :
            LET a    == last[c].emitted[i].remoteAddr
                phys == RemoteAddr(c)
                xff  == last[c].req.xff
            IN  IF FirstEntryIsIP(xff)
                THEN a = [kind |-> phys.kind, ip |-> xff[1],
                          port |-> phys.port]
                ELSE a = phys

C4_Witness ==
    \E c \in Conns :
        /\ last[c].req.xff = <<"203.0.113.7", ",", "10.0.0.1">>
        /\ RemoteAddr(c) = [kind |-> "tcp", ip |-> "10.0.0.2", port |-> 5555]
        /\ last[c].emitted =
             <<[remoteAddr |-> [kind |-> "tcp", ip |-> "203.0.113.7",
                                port |-> 5555]]>>

IsPrefix(s, t) ==
    /\ Len(s) <= Len(t)
    /\ \A i \in DOMAIN s : s[i] = t[i]

\* C5: a request's steps are taken in the order PathCheck, Upgrade,
\* AddressResolve, Emit: the consumer callback is reached only after
\* PathCheck and then Upgrade, and a request that fails PathCheck causes
\* no upgrade attempt.
C5_StepOrder ==
    \A c \in Conns :
        Handled(c) =>
            /\ IsPrefix(last[c].steps,
                        <<"PathCheck", "Upgrade", "AddressResolve", "Emit">>)
            /\ (last[c].emitted # <<>> => Len(last[c].steps) = 4)
            /\ (last[c].upgraded => "Upgrade" \in Range(last[c].steps))
            /\ (last[c].req.path # ln.path =>
                    /\ last[c].steps = <<"PathCheck">>
                    /\ ~last[c].upgraded)

C5_Witness ==
    \E c \in Conns :
        /\ last[c].emitted # <<>>
        /\ last[c].steps = <<"PathCheck", "Upgrade", "AddressResolve", "Emit">>

\* C6: after a first call of Close, every later call returns no error.
C6_CloseIdempotent ==
    \A i \in DOMAIN closeLog : i >= 2 => closeLog[i] = "nil"

ExpectedLayers ==
    SelectSeq(<<"tcp", "proxy", "tls", "http">>,
              LAMBDA l : \/ l \in {"tcp", "http"}
                         \/ (l = "proxy" /\ settings.acceptProxy)
                         \/ (l = "tls" /\ settings.tls))

\* C8: a connection passes the layers in the order stream listener, PROXY
\* protocol (if accepted), TLS (if configured), HTTP; with
\* AcceptProxyProtocol a connection without a valid preamble is rejected
\* before any TLS handshake or HTTP parsing and reaches no handler.
C8_WrapperOrder ==
    \A c \in Conns :
        /\ IsPrefix(touched[c], ExpectedLayers)
        /\ (settings.acceptProxy /\ cstate[c] # "new"
                /\ cin[c].preamble = NoAddr) =>
               /\ "tls" \notin Range(touched[c])
               /\ "http" \notin Range(touched[c])
               /\ ~Handled(c)
               /\ cstate[c] \in {"wrap", "closed"}

C8_Witness ==
    \E c \in Conns :
        /\ settings.acceptProxy
        /\ settings.tls
        /\ cin[c].preamble = NoAddr
        /\ cstate[c] = "closed"
        /\ touched[c] = <<"tcp", "proxy">>

\* The bind of ListenWS failed.
BindFailed == pc = "listened" /\ sock = "unbound"

\* C9: ListenWS returns an error exactly when the bind fails; then there
\* is no handle, no serve loop and no callback; when the bind succeeds it
\* returns a handle and no error, whatever fails later.
C9_OnlyBindFailureReturned ==
    pc = "listened" =>
        /\ (ret.err # "nil" <=> BindFailed)
        /\ BindFailed =>
               /\ ~ret.handle
               /\ serve = "notstarted"
               /\ \A c \in Conns : cstate[c] = "new" /\ delivered[c] = <<>>
        /\ ~BindFailed => ret.handle /\ ret.err = "nil"

C9_Witness ==
    /\ pc = "listened"
    /\ ret.handle
    /\ ret.err = "nil"
    /\ "serve" \in log
    /\ \E c \in Conns : "upgrade" \in last[c].logged

\* Connection c's task is running and c has not been upgraded.
InFlight(c) == cstate[c] \in {"wrap", "reading", "idle"}

\* C10: once Close has been called, the accept loop stops and every
\* in-flight connection-handling task eventually terminates.
C10_CloseFreesTasks ==
    (closeLog # <<>>) ~>
        (serve # "running" /\ \A c \in Conns : ~InFlight(c))

\* C11: once the serve loop has failed (a fatal accept error, logged at
\* line 154) it has stopped and the listener is closed for good: the loop
\* is not restarted, no connection is accepted afterwards, and the failure
\* is in the log only, never in what ListenWS returned.
C11_AcceptFailureClosesForGood ==
    [][("serve" \in log) =>
          /\ serve = "exited" /\ serve' = "exited"
          /\ sock = "closed" /\ sock' = "closed"
          /\ ret.err = "nil" /\ ret' = ret
          /\ \A c \in Conns : cstate[c] = "new" => cstate'[c] = "new"]_vars

C11_Witness ==
    /\ "serve" \in log
    /\ closeLog = <<>>
    /\ serve = "exited"
    /\ ret.handle /\ ret.err = "nil"
    /\ \E c \in Conns : cstate[c] = "new"

\* The terminal states of a handled request.
RejectedNotFound(o) ==
    o.status = StatusNotFound /\ ~o.upgraded /\ o.emitted = <<>>

RejectedForbidden(o) ==
    o.status = StatusForbidden /\ ~o.upgraded /\ o.emitted = <<>>

Delivered(o) ==
    o.upgraded /\ Len(o.emitted) = 1 /\ o.status = 0

\* C12: every request handed to the dispatcher ends as Rejected(NotFound),
\* Rejected(Forbidden) or Delivered, exactly one of them, and no
\* per-request failure (route mismatch, failed upgrade, failed write,
\* address resolution on any kind of peer address) aborts the handler.
C12_RequestEndsInTerminalState ==
    \A c \in Conns :
        Handled(c) =>
            /\ ~last[c].panicked
            /\ Cardinality({k \in {"notfound", "forbidden", "delivered"} :
                   \/ (k = "notfound" /\ RejectedNotFound(last[c]))
                   \/ (k = "forbidden" /\ RejectedForbidden(last[c]))
                   \/ (k = "delivered" /\ Delivered(last[c]))}) = 1

\* The header set of a camouflage response.
CamouflageHeaders == {<<"Server", "nginx">>, <<"Content-Type", "text/html">>}

\* The fixed body that goes with a rejection status.
CamouflageBody(status) ==
    IF status = StatusNotFound THEN <<notFoundContent>>
    ELSE <<forbiddenContent>>

\* C13: the 403 and the 404 response go out with the same header set
\* (Server: nginx, Content-Type: text/html, set before the status is
\* written) and a fixed body that depends on the status only; two requests
\* rejected for the same reason get identical responses.
C13_IndistinguishableRejections ==
    /\ \A c \in Conns :
           (Handled(c) /\ ~last[c].upgraded) =>
               /\ last[c].status \in {StatusForbidden, StatusNotFound}
               /\ last[c].hdr = CamouflageHeaders
               /\ last[c].body = CamouflageBody(last[c].status)
    /\ \A c, d \in Conns :
           (/\ Handled(c) /\ ~last[c].upgraded
            /\ Handled(d) /\ ~last[d].upgraded
            /\ last[c].status = last[d].status) =>
               /\ last[c].hdr = last[d].hdr
               /\ last[c].body = last[d].body

C13_Witness ==
    \E c, d \in Conns :
        /\ c # d
        /\ last[c].status = 403 /\ last[d].status = 403
        /\ last[c].req # last[d].req
        /\ last[c].hdr = last[d].hdr
        /\ last[c].body = last[d].body

\* Without the panic of line 99 every request ends in one terminal state.
NonPanickingEndsInTerminalState ==
    \A c \in Conns :
        (Handled(c) /\ ~last[c].panicked) =>
            Cardinality({k \in {"notfound", "forbidden", "delivered"} :
                \/ (k = "notfound" /\ RejectedNotFound(last[c]))
                \/ (k = "forbidden" /\ RejectedForbidden(last[c]))
                \/ (k = "delivered" /\ Delivered(last[c]))}) = 1

\* C14: the consumer callback runs inside the handler of the upgraded
\* connection: while it is blocked no request is handled on that
\* connection, and accepting connections and handling requests on every
\* other connection go on as if it were not.
C14_CallbackBlocksOwnConnectionOnly ==
    \A c \in Conns :
        cstate[c] = "callback" =>
            /\ ~ENABLED ServeRequest(c)
            /\ ~ENABLED HeaderTimeout(c)
            /\ \A d \in Conns \ {c} :
                   /\ cstate[d] \in {"reading", "idle"} => ENABLED ServeRequest(d)
                   /\ cstate[d] = "callback" => ENABLED CallbackReturn(d)
                   /\ (/\ cstate[d] = "new"
                       /\ serve = "running" /\ sock = "open"
                       /\ \A e \in Conns : e < d => cstate[e] # "new")
                          => ENABLED Accept(d)
                   /\ (cstate[d] = "wrap" /\ Pending(d) = "tls")
                          => ENABLED TLSHandshake(d)
                   /\ (cstate[d] = "wrap" /\ Pending(d) = "proxy")
                          => ENABLED ProxyPreamble(d)

C14_Witness ==
    \E c, d \in Conns :
        /\ c # d
        /\ cstate[c] = "callback"
        /\ cstate[d] = "idle"
        /\ Handled(d)
        /\ ENABLED ServeRequest(d)

\* Connection c has been handed to the consumer callback.
HandedOver(c) == cstate[c] \in {"callback", "delivered"}

\* C15: a connection that has been handed to the consumer callback is
\* left as it is by every Close call and by the end of the serve loop:
\* neither closes it nor alters what was delivered.
C15_CloseLeavesDeliveredAlone ==
    [][\A c \in Conns :
         (/\ HandedOver(c)
          /\ (closeLog' # closeLog \/ serve' # serve \/ sock' # sock)) =>
             /\ cstate'[c] = cstate[c]
             /\ delivered'[c] = delivered[c]
             /\ last'[c] = last[c]
             /\ cin'[c] = cin[c]]_vars

C15_Witness ==
    \E c \in Conns :
        /\ cstate[c] = "delivered"
        /\ Len(delivered[c]) = 1
        /\ Len(closeLog) = 2
        /\ serve = "exited"

\* The Listener a successful ListenWS builds from its arguments.
ConfiguredListener ==
    [path |-> settings.path, acceptProxy |-> settings.acceptProxy,
     addConn |-> "addConn",
     listener |-> SelectSeq(ExpectedLayers, LAMBDA l : l # "http")]

\* C16: the Listener's composed listener, configuration and callback
\* reference are set during ListenWS, before the serve loop starts, and
\* nothing changes them afterwards.
C16_ListenerSetOnce ==
    [][/\ pc = "listened" => ln' = ln
       /\ serve' # "notstarted" => ln' = ConfiguredListener]_vars

C16_Witness ==
    /\ ln = ConfiguredListener
    /\ serve = "exited"
    /\ Len(closeLog) = 2
    /\ \E c \in Conns : cstate[c] = "delivered"
    /\ \E c \in Conns : Handled(c) /\ ~last[c].upgraded

\* C17: Addr returns the address the stream listener is bound to, for
\* every combination of wrappers and at every point of the Listener's
\* life, before and after Close.
C17_AddrIsBoundAddress ==
    ret.handle => Addr = ListenAddress

C17_Witness ==
    /\ ret.handle
    /\ settings.acceptProxy /\ settings.tls
    /\ Len(ln.listener) = 3
    /\ sock = "closed"
    /\ closeLog # <<>>
    /\ Addr = [kind |-> "tcp", ip |-> "0.0.0.0", port |-> 443]

\* C18: a connection is delivered to the consumer callback at most once
\* over its life: once a request on it has been upgraded no further
\* request on it is dispatched, while a connection whose requests were
\* all rejected may serve further requests.
C18_AtMostOneDeliveryPerConnection ==
    \A c \in Conns :
        /\ Len(delivered[c]) <= 1
        /\ delivered[c] # <<>> => ~ENABLED ServeRequest(c)
        /\ (Handled(c) /\ ~last[c].upgraded /\ cstate[c] = "idle") =>
               /\ delivered[c] = <<>>
               /\ ENABLED ServeRequest(c)

C18_Witness ==
    \E c \in Conns :
        /\ Len(delivered[c]) = 1
        /\ cstate[c] = "delivered"
        /\ ~ENABLED ServeRequest(c)

\* C19: once Close has returned no stream connection is accepted, so a
\* consumer callback invoked after Close is for a connection accepted
\* before it.
C19_NoAcceptAfterClose ==
    [][(closeLog # <<>>) =>
          \A c \in Conns :
              cstate[c] = "new" =>
                  /\ cstate'[c] = "new"
                  /\ delivered'[c] = <<>>
                  /\ ~ENABLED Accept(c)]_vars

C19_Witness ==
    \E c, d \in Conns :
        /\ closeLog # <<>>
        /\ serve = "running"
        /\ cstate[c] = "callback"
        /\ cstate[d] = "new"

=============================================================================
